---- MODULE Spec2Model ----
(***************************************************************************)
(* The evaluation core of jest-lang: run_prog, the declaration binder      *)
(* (env_from_decls = unfilled_env ; fill_decl_env) and eval_expr of        *)
(* src/src/execute/interpreter.rs, as a small-step machine.                *)
(*                                                                         *)
(* eval_expr recurses on the host stack; here the host stack is `stack`,   *)
(* a sequence of the positions inside eval_expr that wait for a            *)
(* sub-evaluation, and `ctrl` is what the innermost call is doing: either  *)
(* evaluating an expression in an environment or returning a value.        *)
(*                                                                         *)
(* Environments are chains of single-binding frames held in the heap       *)
(* `frames`; an environment reference is a frame index, 0 the empty        *)
(* environment.  Thunks live in the heap `thunks`.                         *)
(*                                                                         *)
(* crate::environment (Env) and crate::execute::value (Value, operators)   *)
(* are not part of the available sources; their operations are modelled    *)
(* from the design document and from the tests of interpreter.rs.          *)
(* Error messages are kept as tuples of string fragments (format!).        *)
(***************************************************************************)
EXTENDS Integers, Sequences, FiniteSets, TLC

VARIABLES prog, run, prev, pc, ctrl, stack, frames, thunks, writes, evals, result

vars == <<prog, run, prev, pc, ctrl, stack, frames, thunks, writes, evals, result>>

(***************************************************************************)
(* Values                                                                  *)
(***************************************************************************)
IntV(i) == [tag |-> "Int", v |-> i]

\* The truth value is field b, the integer of IntV field v.
BoolV(b) == [tag |-> "Bool", b |-> b]

TupleV(items) == [tag |-> "Tuple", items |-> items]

BoxedV(inner) == [tag |-> "Boxed", inner |-> inner]

ErrorV(msg) == [tag |-> "Error", msg |-> msg]

\* Value::function: a closure holding its environment strongly.
FunctionV(param, body, env) ==
    [tag |-> "Function", param |-> param, body |-> body, env |-> env, weak |-> FALSE]

\* Value::decl_function: a closure holding the declarations environment weakly.
DeclFunctionV(param, body, env) ==
    [tag |-> "Function", param |-> param, body |-> body, env |-> env, weak |-> TRUE]

\* A delayed value: a reference to a memoizing cell of `thunks`.
ThunkV(id) == [tag |-> "Thunk", id |-> id]

error(message) == ErrorV(<<message>>)

(***************************************************************************)
(* Patterns (ast::Match)                                                   *)
(***************************************************************************)
Ident(name) == [tag |-> "Ident", name |-> name]

Wildcard == [tag |-> "Wildcard"]

ValueP(val) == [tag |-> "Value", val |-> val]

TupleP(items) == [tag |-> "Tuple", items |-> items]

(***************************************************************************)
(* Expressions (ast::Expr)                                                 *)
(***************************************************************************)
Unary(op, a) == [tag |-> "Unary", op |-> op, a |-> a]

Binary(a, op, b) == [tag |-> "Binary", a |-> a, op |-> op, b |-> b]

Literal(val) == [tag |-> "Literal", val |-> val]

If(cond, a, b) == [tag |-> "If", cond |-> cond, a |-> a, b |-> b]

Variable(ident) == [tag |-> "Variable", ident |-> ident]

Let(ident, value, inner) ==
    [tag |-> "Let", ident |-> ident, value |-> value, inner |-> inner]

Fn_(param, body) == [tag |-> "Fn_", param |-> param, body |-> body]

FnApp(function, arg) == [tag |-> "FnApp", function |-> function, arg |-> arg]

Match(val, patterns) == [tag |-> "Match", val |-> val, patterns |-> patterns]

Delayed(ident, value, inner) ==
    [tag |-> "Delayed", ident |-> ident, value |-> value, inner |-> inner]

Boxed(value) == [tag |-> "Boxed", value |-> value]

\* Decl::Expression(ident, expr)
Expression(ident, expr) == [ident |-> ident, expr |-> expr]

(***************************************************************************)
(* Value: type names, structural equality, primitive operators             *)
(***************************************************************************)
type_(val) == val.tag

RECURSIVE HasOpaque(_)
\* Functions and thunks are never equal to anything, themselves included.
HasOpaque(val) ==
    CASE val.tag \in {"Function", "Thunk"} -> TRUE
      [] val.tag = "Tuple" -> \E i \in 1..Len(val.items) : HasOpaque(val.items[i])
      [] val.tag = "Boxed" -> HasOpaque(val.inner)
      [] OTHER -> FALSE

ValEq(a, b) == a = b /\ ~HasOpaque(a)

\* i64 division and remainder truncate toward zero.
Abs(i) == IF i < 0 THEN -i ELSE i

TruncDiv(i, j) ==
    IF (i < 0) = (j < 0) THEN Abs(i) \div Abs(j) ELSE -(Abs(i) \div Abs(j))

TruncRem(i, j) == i - j * TruncDiv(i, j)

TypeMismatch == error("type mismatch")

UnaryEval(op, a) ==
    IF a.tag = "Error" THEN a
    ELSE CASE op = "Negate" -> IF a.tag = "Int" THEN IntV(-a.v) ELSE TypeMismatch
           [] op = "Not" -> IF a.tag = "Bool" THEN BoolV(~a.b) ELSE TypeMismatch

ArithOps == {"Plus", "Minus", "Times", "Divide", "Modulo"}

CompareOps == {"Less", "LessEqual", "Greater", "GreaterEqual"}

LogicOps == {"And", "Or", "Xor"}

BinaryEval(op, a, b) ==
    IF a.tag = "Error" THEN a
    ELSE IF b.tag = "Error" THEN b
    ELSE IF op = "Equal" THEN BoolV(ValEq(a, b))
    ELSE IF op = "NotEqual" THEN BoolV(~ValEq(a, b))
    ELSE IF op \in ArithOps \cup CompareOps THEN
        IF a.tag # "Int" \/ b.tag # "Int" THEN TypeMismatch
        ELSE CASE op = "Plus" -> IntV(a.v + b.v)
               [] op = "Minus" -> IntV(a.v - b.v)
               [] op = "Times" -> IntV(a.v * b.v)
               [] op = "Divide" ->
                    IF b.v = 0 THEN error("divide by zero") ELSE IntV(TruncDiv(a.v, b.v))
               [] op = "Modulo" ->
                    IF b.v = 0 THEN error("modulo by zero") ELSE IntV(TruncRem(a.v, b.v))
               [] op = "Less" -> BoolV(a.v < b.v)
               [] op = "LessEqual" -> BoolV(a.v <= b.v)
               [] op = "Greater" -> BoolV(a.v > b.v)
               [] op = "GreaterEqual" -> BoolV(a.v >= b.v)
    ELSE IF a.tag # "Bool" \/ b.tag # "Bool" THEN TypeMismatch
    ELSE CASE op = "And" -> BoolV(a.b /\ b.b)
           [] op = "Or" -> BoolV(a.b \/ b.b)
           [] op = "Xor" -> BoolV(a.b # b.b)

\* Tuple::get(index), index >= 0.
TupleGet(tuple, index) ==
    IF index + 1 <= Len(tuple.items) THEN tuple.items[index + 1]
    ELSE error("Index out of range")

(***************************************************************************)
(* Environment (crate::environment::Env)                                   *)
(***************************************************************************)
empty == 0

Frame(name, cell, parent) == [name |-> name, cell |-> cell, parent |-> parent]

\* Env::associate_ident: a new frame on top of parent.  The result is the
\* heap with the frame added; the new environment is its last index.
associate_ident(fr, name, value, parent) == Append(fr, Frame(name, value, parent))

RECURSIVE get(_, _, _)
\* Env::get: the cell of the innermost frame called ident, if any.
get(fr, env, ident) ==
    IF env = empty THEN [found |-> FALSE]
    ELSE IF fr[env].name = ident THEN [found |-> TRUE, val |-> fr[env].cell]
    ELSE get(fr, fr[env].parent, ident)

\* Env::set_value: overwrite the cell of an existing frame.
set_value(fr, env, value) == [fr EXCEPT ![env].cell = value]

NonMatch(fr, parent) ==
    [ok |-> FALSE, env |-> parent, frames |-> fr, error |-> <<"Pattern did not match value">>]

RECURSIVE associate(_, _, _, _)
RECURSIVE associate_tuple(_, _, _, _, _)
\* Env::associate: the pattern matcher.  Ok(env) with the heap that holds the
\* new frames, or Err(error) with the heap as it was.
associate(fr, pattern, value, parent) ==
    CASE pattern.tag = "Ident" ->
            [ok |-> TRUE, env |-> Len(fr) + 1,
             frames |-> associate_ident(fr, pattern.name, value, parent)]
      [] pattern.tag = "Wildcard" -> [ok |-> TRUE, env |-> parent, frames |-> fr]
      [] pattern.tag = "Value" ->
            IF ValEq(pattern.val, value)
            THEN [ok |-> TRUE, env |-> parent, frames |-> fr]
            ELSE NonMatch(fr, parent)
      [] pattern.tag = "Tuple" ->
            IF value.tag = "Tuple" /\ Len(value.items) = Len(pattern.items)
            THEN LET r == associate_tuple(fr, pattern.items, value.items, 1, parent)
                 IN  IF r.ok THEN r ELSE NonMatch(fr, parent)
            ELSE NonMatch(fr, parent)

\* The left-to-right fold over the components of a tuple pattern.
associate_tuple(fr, ps, vs, i, parent) ==
    IF i > Len(ps) THEN [ok |-> TRUE, env |-> parent, frames |-> fr]
    ELSE LET r == associate(fr, ps[i], vs[i], parent)
         IN  IF r.ok THEN associate_tuple(r.frames, ps, vs, i + 1, r.env) ELSE r

(***************************************************************************)
(* The machine                                                             *)
(***************************************************************************)
Eval(expr, env) == [mode |-> "eval", expr |-> expr, env |-> env]

Ret(val) == [mode |-> "ret", val |-> val]

Idle == [mode |-> "idle"]

Push(k) == <<k>> \o stack

\* eval_expr is at an expression of the given variant.
At(tag) == pc = "eval" /\ ctrl.mode = "eval" /\ ctrl.expr.tag = tag

\* A sub-evaluation has returned to the given position of eval_expr.
Back(k) == pc = "eval" /\ ctrl.mode = "ret" /\ stack # <<>> /\ Head(stack).k = k

\* The write log of the cells: one entry per frame, "create" when the frame
\* is made, then the writer of each set_value.
Created(wr, fr) ==
    [i \in 1..Len(fr) |-> IF i <= Len(wr) THEN wr[i] ELSE <<"create">>]

Logged(wr, env, who) == [wr EXCEPT ![env] = Append(@, who)]

NotInitialized(ident) == ErrorV(<<"'", ident, "' has not been initialized">>)

RECURSIVE unfilled_env_unchained(_, _, _)
\* unfilled_env with every frame on top of the empty environment instead of
\* on top of the previous frame.
unfilled_env_unchained(decls, i, fr) ==
    IF i > Len(decls) THEN fr
    ELSE unfilled_env_unchained(decls, i + 1,
            associate_ident(fr, decls[i].ident, NotInitialized(decls[i].ident), empty))

RECURSIVE unfilled_env(_, _, _)
\* The fold of unfilled_env: one frame per declaration, each on top of the
\* previous one, holding the placeholder error.  decl_ptrs[i] is frame i and
\* the resulting environment is the last frame.
unfilled_env(decls, i, fr) ==
    IF i > Len(decls) THEN fr
    ELSE unfilled_env(decls, i + 1,
            associate_ident(fr, decls[i].ident, NotInitialized(decls[i].ident), Len(fr)))

\* decl_ptrs with every entry the final environment instead of the frame of
\* its declaration.
decl_ptrs_last(decls) == [i \in 1..Len(decls) |-> Len(decls)]

\* The frame references unfilled_env records: decl_ptrs[i] is the frame made
\* for declaration i.
decl_ptrs(decls) == [i \in 1..Len(decls) |-> i]

UnfilledEnv ==
    /\ pc = "run_prog"
    /\ prog.kind = "Binary"
    /\ frames' = unfilled_env(prog.decls, 1, <<>>)
    /\ writes' = Created(<<>>, frames')
    /\ pc' = "unfilled"
    /\ UNCHANGED <<prog, run, prev, ctrl, stack, thunks, evals, result>>

\* run_prog of a Prog::Library
RunLibrary ==
    /\ pc = "run_prog"
    /\ prog.kind = "Library"
    /\ pc' = "err"
    /\ result' = [ok |-> FALSE, err |-> "No 'main' found in file"]
    /\ UNCHANGED <<prog, run, prev, ctrl, stack, frames, thunks, writes, evals>>

\* The declarations whose expression is not a function get a thunk each, in
\* declaration order.
ThunkIndex(decls, i) == Cardinality({j \in 1..i : decls[j].expr.tag # "Fn_"})

\* What fill_decl_env installs in decl_ptr for declaration i; env is the
\* full declarations environment.
DeclValue(decls, i, env) ==
    IF decls[i].expr.tag = "Fn_"
    THEN DeclFunctionV(decls[i].expr.param, decls[i].expr.body, env)
    ELSE ThunkV(ThunkIndex(decls, i))

\* Value::delayed_decl(expr, weak decl_ptr, weak env) for each declaration
\* that is not a function.
DeclThunks(decls, ptrs, env) ==
    LET idx == {i \in 1..Len(decls) : decls[i].expr.tag # "Fn_"}
    IN  [t \in 1..Cardinality(idx) |->
            LET i == CHOOSE j \in idx : ThunkIndex(decls, j) = t
            IN  [state |-> "Unevaluated", expr |-> decls[i].expr,
                 site |-> ptrs[i], env |-> env, weak |-> TRUE]]

RECURSIVE fill_decl_env(_, _, _, _, _)
\* The for_each of fill_decl_env from declaration i on: set_value on each
\* decl_ptr, on the heap [frames, writes].
fill_decl_env(decls, ptrs, env, i, heap) ==
    IF i > Len(decls) THEN heap
    ELSE fill_decl_env(decls, ptrs, env, i + 1,
            [frames |-> set_value(heap.frames, ptrs[i], DeclValue(decls, i, env)),
             writes |-> Logged(heap.writes, ptrs[i], "fill_decl_env")])

FillDeclEnv ==
    /\ pc = "unfilled"
    /\ LET env == Len(frames)
           ptrs == decl_ptrs(prog.decls)
           heap == fill_decl_env(prog.decls, ptrs, env, 1, [frames |-> frames, writes |-> writes])
       IN  /\ frames' = heap.frames
           /\ writes' = heap.writes
           /\ thunks' = DeclThunks(prog.decls, ptrs, env)
           /\ evals' = [t \in 1..Len(thunks') |-> 0]
           /\ ctrl' = Eval(prog.main, env)
    /\ pc' = "eval"
    /\ UNCHANGED <<prog, run, prev, stack, result>>

(***************************************************************************)
(* Value::eval, the forcing primitive                                      *)
(***************************************************************************)
\* Option<WrappedEnv>
Some(env) == [some |-> TRUE, env |-> env]

None == [some |-> FALSE]

\* Value::eval without the Evaluating mark: the thunk stays Unevaluated
\* while its expression is evaluated.
ValueEvalUnmarked(val, context) ==
    IF val.tag = "Thunk" /\ thunks[val.id].state = "Unevaluated" THEN
        /\ thunks' = thunks
        /\ evals' = [evals EXCEPT ![val.id] = @ + 1]
        /\ stack' = Push([k |-> "Force", thunk |-> val.id, site |-> thunks[val.id].site])
        /\ ctrl' = Eval(thunks[val.id].expr, IF context.some THEN context.env
                                             ELSE thunks[val.id].env)
    ELSE /\ ctrl' = Ret(IF val.tag = "Thunk"
                        THEN (IF thunks[val.id].state = "Forced" THEN thunks[val.id].val
                              ELSE error("cyclic use of delayed value"))
                        ELSE val)
         /\ UNCHANGED <<thunks, evals, stack>>

\* val.eval(context).  A thunk that is not yet evaluated is marked
\* Evaluating and its expression is evaluated in the context environment
\* when one is passed (tests::delayed_test: `delay a = b in let b = 1 in
\* a + b` is Int(2), so the names of the expression resolve where the value
\* is demanded) and in the environment the thunk holds otherwise; the result
\* comes back to ForceDone.  A weakly held closure environment is promoted
\* to a strong one.
ValueEval(val, context) ==
    IF val.tag = "Thunk" THEN
        LET t == val.id
            th == thunks[t]
        IN  CASE th.state = "Unevaluated" ->
                   /\ thunks' = [thunks EXCEPT ![t] = [state |-> "Evaluating"]]
                   /\ evals' = [evals EXCEPT ![t] = @ + 1]
                   /\ stack' = Push([k |-> "Force", thunk |-> t, site |-> th.site])
                   /\ ctrl' = Eval(th.expr, IF context.some THEN context.env ELSE th.env)
              [] th.state = "Evaluating" ->
                   /\ ctrl' = Ret(error("cyclic use of delayed value"))
                   /\ UNCHANGED <<thunks, evals, stack>>
              [] th.state = "Forced" ->
                   /\ ctrl' = Ret(th.val)
                   /\ UNCHANGED <<thunks, evals, stack>>
    ELSE /\ ctrl' = Ret(IF val.tag = "Function" THEN [val EXCEPT !.weak = FALSE] ELSE val)
         /\ UNCHANGED <<thunks, evals, stack>>

\* The end of a forcing: the result is written into the thunk's own cell
\* (through the weak self reference) and into the thunk's Forced slot.
ForceDone ==
    /\ Back("Force")
    /\ LET f == Head(stack)
       IN  /\ thunks' = [thunks EXCEPT ![f.thunk] = [state |-> "Forced", val |-> ctrl.val]]
           /\ frames' = IF f.site = empty THEN frames ELSE set_value(frames, f.site, ctrl.val)
           /\ writes' = IF f.site = empty THEN writes ELSE Logged(writes, f.site, "force")
    /\ stack' = Tail(stack)
    /\ UNCHANGED <<prog, run, prev, pc, ctrl, evals, result>>

(***************************************************************************)
(* eval_expr                                                               *)
(***************************************************************************)
EvalUnary ==
    /\ At("Unary")
    /\ stack' = Push([k |-> "Unary", op |-> ctrl.expr.op])
    /\ ctrl' = Eval(ctrl.expr.a, ctrl.env)
    /\ UNCHANGED <<prog, run, prev, pc, frames, thunks, writes, evals, result>>

ApplyUnary ==
    /\ Back("Unary")
    /\ ctrl' = Ret(UnaryEval(Head(stack).op, ctrl.val))
    /\ stack' = Tail(stack)
    /\ UNCHANGED <<prog, run, prev, pc, frames, thunks, writes, evals, result>>

EvalBinary ==
    /\ At("Binary")
    /\ stack' = Push([k |-> "BinaryLeft", op |-> ctrl.expr.op, b |-> ctrl.expr.b,
                      env |-> ctrl.env])
    /\ ctrl' = Eval(ctrl.expr.a, ctrl.env)
    /\ UNCHANGED <<prog, run, prev, pc, frames, thunks, writes, evals, result>>

EvalBinaryRight ==
    /\ Back("BinaryLeft")
    /\ LET f == Head(stack)
       IN  /\ stack' = <<[k |-> "BinaryRight", op |-> f.op, a |-> ctrl.val]>> \o Tail(stack)
           /\ ctrl' = Eval(f.b, f.env)
    /\ UNCHANGED <<prog, run, prev, pc, frames, thunks, writes, evals, result>>

ApplyBinary ==
    /\ Back("BinaryRight")
    /\ ctrl' = Ret(BinaryEval(Head(stack).op, Head(stack).a, ctrl.val))
    /\ stack' = Tail(stack)
    /\ UNCHANGED <<prog, run, prev, pc, frames, thunks, writes, evals, result>>

EvalLiteral ==
    /\ At("Literal")
    /\ ctrl' = Ret(ctrl.expr.val)
    /\ UNCHANGED <<prog, run, prev, pc, stack, frames, thunks, writes, evals, result>>

EvalIf ==
    /\ At("If")
    /\ stack' = Push([k |-> "If", a |-> ctrl.expr.a, b |-> ctrl.expr.b, env |-> ctrl.env])
    /\ ctrl' = Eval(ctrl.expr.cond, ctrl.env)
    /\ UNCHANGED <<prog, run, prev, pc, frames, thunks, writes, evals, result>>

IfBranch ==
    /\ Back("If")
    /\ LET f == Head(stack)
       IN  ctrl' = IF ctrl.val = BoolV(TRUE) THEN Eval(f.a, f.env)
                   ELSE IF ctrl.val = BoolV(FALSE) THEN Eval(f.b, f.env)
                   ELSE Ret(error("If condition must return a boolean"))
    /\ stack' = Tail(stack)
    /\ UNCHANGED <<prog, run, prev, pc, frames, thunks, writes, evals, result>>

\* Expr::Variable forcing a copy of the delayed value: the expression is
\* evaluated for this lookup and nothing is kept.
EvalVariableCopy ==
    /\ At("Variable")
    /\ LET found == get(frames, ctrl.env, ctrl.expr.ident)
       IN  IF found.found /\ found.val.tag = "Thunk"
              /\ thunks[found.val.id].state = "Unevaluated"
           THEN /\ ctrl' = Eval(thunks[found.val.id].expr, ctrl.env)
                /\ evals' = [evals EXCEPT ![found.val.id] = @ + 1]
                /\ UNCHANGED <<thunks, stack>>
           ELSE IF found.found THEN ValueEval(found.val, Some(ctrl.env))
           ELSE /\ ctrl' = Ret(ErrorV(<<"Variable '", ctrl.expr.ident, "' is not declared">>))
                /\ UNCHANGED <<thunks, evals, stack>>
    /\ UNCHANGED <<prog, run, prev, pc, frames, writes, result>>

\* Expr::Variable with val.eval(None): no context environment is passed.
EvalVariableNoContext ==
    /\ At("Variable")
    /\ LET found == get(frames, ctrl.env, ctrl.expr.ident)
       IN  IF found.found THEN ValueEval(found.val, None)
           ELSE /\ ctrl' = Ret(ErrorV(<<"Variable '", ctrl.expr.ident, "' is not declared">>))
                /\ UNCHANGED <<thunks, evals, stack>>
    /\ UNCHANGED <<prog, run, prev, pc, frames, writes, result>>

EvalVariable ==
    /\ At("Variable")
    /\ LET found == get(frames, ctrl.env, ctrl.expr.ident)
       IN  IF found.found THEN ValueEval(found.val, Some(ctrl.env))
           ELSE /\ ctrl' = Ret(ErrorV(<<"Variable '", ctrl.expr.ident, "' is not declared">>))
                /\ UNCHANGED <<thunks, evals, stack>>
    /\ UNCHANGED <<prog, run, prev, pc, frames, writes, result>>

EvalLet ==
    /\ At("Let")
    /\ stack' = Push([k |-> "Let", ident |-> ctrl.expr.ident, inner |-> ctrl.expr.inner,
                      env |-> ctrl.env])
    /\ ctrl' = Eval(ctrl.expr.value, ctrl.env)
    /\ UNCHANGED <<prog, run, prev, pc, frames, thunks, writes, evals, result>>

LetBind ==
    /\ Back("Let")
    /\ LET f == Head(stack)
           r == associate(frames, f.ident, ctrl.val, f.env)
       IN  /\ frames' = r.frames
           /\ writes' = Created(writes, r.frames)
           /\ ctrl' = IF r.ok THEN Eval(f.inner, r.env) ELSE Ret(ErrorV(r.error))
    /\ stack' = Tail(stack)
    /\ UNCHANGED <<prog, run, prev, pc, thunks, evals, result>>

EvalFn ==
    /\ At("Fn_")
    /\ ctrl' = Ret(FunctionV(ctrl.expr.param, ctrl.expr.body, ctrl.env))
    /\ UNCHANGED <<prog, run, prev, pc, stack, frames, thunks, writes, evals, result>>

EvalFnApp ==
    /\ At("FnApp")
    /\ stack' = Push([k |-> "FnAppFunction", arg |-> ctrl.expr.arg, env |-> ctrl.env])
    /\ ctrl' = Eval(ctrl.expr.function, ctrl.env)
    /\ UNCHANGED <<prog, run, prev, pc, frames, thunks, writes, evals, result>>

\* `match function { ... }` of Expr::FnApp: the argument is evaluated in the
\* caller's environment for a function and for a tuple index.
FnAppFunction ==
    /\ Back("FnAppFunction")
    /\ LET f == Head(stack)
           function == ctrl.val
       IN  CASE function.tag = "Function" ->
                   /\ stack' = <<[k |-> "FnAppArg", param |-> function.param,
                                  body |-> function.body, fn_env |-> function.env,
                                  env |-> f.env]>> \o Tail(stack)
                   /\ ctrl' = Eval(f.arg, f.env)
              [] function.tag = "Int" /\ function.v >= 0 ->
                   /\ stack' = <<[k |-> "Index", index |-> function.v]>> \o Tail(stack)
                   /\ ctrl' = Eval(f.arg, f.env)
              [] function.tag = "Int" /\ function.v < 0 ->
                   /\ stack' = Tail(stack)
                   /\ ctrl' = Ret(error("Cannot have a negative index of a tuple"))
              [] OTHER ->
                   /\ stack' = Tail(stack)
                   /\ ctrl' = Ret(ErrorV(<<"Can't apply argument to type '",
                                           type_(function), "'">>))
    /\ UNCHANGED <<prog, run, prev, pc, frames, thunks, writes, evals, result>>

\* Expr::FnApp binding the parameter on top of the caller's environment
\* instead of the captured one.
FnAppArgDynamic ==
    /\ Back("FnAppArg")
    /\ LET f == Head(stack)
           r == associate(frames, f.param, ctrl.val, f.env)
       IN  /\ frames' = r.frames
           /\ writes' = Created(writes, r.frames)
           /\ ctrl' = IF r.ok THEN Eval(f.body, r.env) ELSE Ret(ErrorV(r.error))
    /\ stack' = Tail(stack)
    /\ UNCHANGED <<prog, run, prev, pc, thunks, evals, result>>

FnAppArg ==
    /\ Back("FnAppArg")
    /\ LET f == Head(stack)
           r == associate(frames, f.param, ctrl.val, f.fn_env)
       IN  /\ frames' = r.frames
           /\ writes' = Created(writes, r.frames)
           /\ ctrl' = IF r.ok THEN Eval(f.body, r.env) ELSE Ret(ErrorV(r.error))
    /\ stack' = Tail(stack)
    /\ UNCHANGED <<prog, run, prev, pc, thunks, evals, result>>

TupleIndex ==
    /\ Back("Index")
    /\ ctrl' = IF ctrl.val.tag = "Tuple" THEN Ret(TupleGet(ctrl.val, Head(stack).index))
               ELSE Ret(ErrorV(<<"Can't index type '", type_(ctrl.val), "'">>))
    /\ stack' = Tail(stack)
    /\ UNCHANGED <<prog, run, prev, pc, frames, thunks, writes, evals, result>>

EvalMatch ==
    /\ At("Match")
    /\ stack' = Push([k |-> "Match", patterns |-> ctrl.expr.patterns, env |-> ctrl.env])
    /\ ctrl' = Eval(ctrl.expr.val, ctrl.env)
    /\ UNCHANGED <<prog, run, prev, pc, frames, thunks, writes, evals, result>>

RECURSIVE find_map_last(_, _, _, _, _)
\* find_map returning the last arm that matches instead of the first.
find_map_last(fr, patterns, i, val, env) ==
    IF i > Len(patterns) THEN [found |-> FALSE, frames |-> fr]
    ELSE LET rest == find_map_last(fr, patterns, i + 1, val, env)
             r == associate(fr, patterns[i][1], val, env)
         IN  IF rest.found THEN rest
             ELSE IF r.ok THEN [found |-> TRUE, env |-> r.env, frames |-> r.frames,
                                expr |-> patterns[i][2]]
             ELSE rest

RECURSIVE find_map(_, _, _, _, _)
\* patterns.into_iter().find_map(..): the first arm, from index i on, whose
\* pattern associates with val on top of env.
find_map(fr, patterns, i, val, env) ==
    IF i > Len(patterns) THEN [found |-> FALSE, frames |-> fr]
    ELSE LET r == associate(fr, patterns[i][1], val, env)
         IN  IF r.ok THEN [found |-> TRUE, env |-> r.env, frames |-> r.frames,
                           expr |-> patterns[i][2]]
             ELSE find_map(fr, patterns, i + 1, val, env)

MatchArm ==
    /\ Back("Match")
    /\ LET f == Head(stack)
           m == find_map(frames, f.patterns, 1, ctrl.val, f.env)
       IN  /\ frames' = m.frames
           /\ writes' = Created(writes, m.frames)
           /\ ctrl' = IF m.found THEN Eval(m.expr, m.env)
                      ELSE Ret(error("Value didn't match any patterns"))
    /\ stack' = Tail(stack)
    /\ UNCHANGED <<prog, run, prev, pc, thunks, evals, result>>

\* Value::delayed: a fresh thunk for value with a weak reference to its own
\* frame and a strong one to the enclosing environment.
delayed(value, site, env) ==
    [state |-> "Unevaluated", expr |-> value, site |-> site, env |-> env, weak |-> FALSE]

\* Expr::Delayed handled as Expr::Let: the value is evaluated at once.
EvalDelayedAsLet ==
    /\ At("Delayed")
    /\ stack' = Push([k |-> "Let", ident |-> ctrl.expr.ident, inner |-> ctrl.expr.inner,
                      env |-> ctrl.env])
    /\ ctrl' = Eval(ctrl.expr.value, ctrl.env)
    /\ UNCHANGED <<prog, run, prev, pc, frames, thunks, writes, evals, result>>

\* Expr::Delayed with set_value(env, ..): the thunk goes into the enclosing
\* environment instead of the new frame.
EvalDelayedOuter ==
    /\ At("Delayed")
    /\ LET r == associate(frames, ctrl.expr.ident, error("Value not yet initialized"), ctrl.env)
           t == Len(thunks) + 1
       IN  IF ~r.ok
           THEN /\ pc' = "panic"
                /\ ctrl' = Idle
                /\ UNCHANGED <<frames, thunks, writes, evals>>
           ELSE /\ thunks' = Append(thunks, delayed(ctrl.expr.value, ctrl.env, ctrl.env))
                /\ evals' = Append(evals, 0)
                /\ frames' = IF ctrl.env = empty THEN r.frames
                             ELSE set_value(r.frames, ctrl.env, ThunkV(t))
                /\ writes' = IF ctrl.env = empty THEN Created(writes, r.frames)
                             ELSE Logged(Created(writes, r.frames), ctrl.env, "Delayed")
                /\ ctrl' = Eval(ctrl.expr.inner, r.env)
                /\ pc' = pc
    /\ UNCHANGED <<prog, run, prev, stack, result>>

\* Expr::Delayed.  associate(..).unwrap() panics on a pattern that does not
\* match the placeholder; a pattern that binds nothing leaves new_env = env.
\* What set_value does on the empty environment is not known: either it
\* panics or it writes nothing.
EvalDelayed ==
    /\ At("Delayed")
    /\ LET r == associate(frames, ctrl.expr.ident, error("Value not yet initialized"), ctrl.env)
           new_env == r.env
           t == Len(thunks) + 1
       IN  \E onEmpty \in IF r.ok /\ new_env = empty THEN {"panic", "skip"} ELSE {"skip"} :
             IF ~r.ok \/ (new_env = empty /\ onEmpty = "panic")
             THEN /\ pc' = "panic"
                  /\ ctrl' = Idle
                  /\ UNCHANGED <<frames, thunks, writes, evals>>
             ELSE /\ thunks' = Append(thunks, delayed(ctrl.expr.value, new_env, ctrl.env))
                  /\ evals' = Append(evals, 0)
                  /\ frames' = IF new_env = empty THEN r.frames
                               ELSE set_value(r.frames, new_env, ThunkV(t))
                  /\ writes' = IF new_env = empty THEN writes
                               ELSE Logged(Created(writes, r.frames), new_env, "Delayed")
                  /\ ctrl' = Eval(ctrl.expr.inner, new_env)
                  /\ pc' = pc
    /\ UNCHANGED <<prog, run, prev, stack, result>>

EvalBoxed ==
    /\ At("Boxed")
    /\ stack' = Push([k |-> "Boxed"])
    /\ ctrl' = Eval(ctrl.expr.value, ctrl.env)
    /\ UNCHANGED <<prog, run, prev, pc, frames, thunks, writes, evals, result>>

BoxValue ==
    /\ Back("Boxed")
    /\ ctrl' = Ret(BoxedV(ctrl.val))
    /\ stack' = Tail(stack)
    /\ UNCHANGED <<prog, run, prev, pc, frames, thunks, writes, evals, result>>

\* eval_expr(main, ..) has returned to run_prog: Ok(value).
Finish ==
    /\ pc = "eval"
    /\ ctrl.mode = "ret"
    /\ stack = <<>>
    /\ pc' = "done"
    /\ result' = [ok |-> TRUE, val |-> ctrl.val]
    /\ ctrl' = Idle
    /\ UNCHANGED <<prog, run, prev, stack, frames, thunks, writes, evals>>

(***************************************************************************)
(* Programs                                                                *)
(***************************************************************************)
MaxRuns == 2

MaxDecls == 2

MaxArms == 2

MaxUses == 2

int(i) == Literal(IntV(i))

bool(b) == Literal(BoolV(b))

variable(ident) == Variable(ident)

plus(a, b) == Binary(a, "Plus", b)

divide(a, b) == Binary(a, "Divide", b)

negate(a) == Unary("Negate", a)

tuple(items) == Literal(TupleV(items))

\* Prog::Binary(main, decls) and Prog::Library(decls)
Bin(main, decls) == [kind |-> "Binary", main |-> main, decls |-> decls]

Library(decls) == [kind |-> "Library", decls |-> decls]

Range(seq) == {seq[i] : i \in 1..Len(seq)}

RECURSIVE Uses(_, _)
\* ident + ident + ... with n lookups of ident
Uses(ident, n) == IF n <= 1 THEN variable(ident) ELSE plus(Uses(ident, n - 1), variable(ident))

\* The cases of the tests of interpreter.rs and the scenarios of the design.
TestPrograms ==
    { Bin(int(1), <<>>),
      Bin(plus(int(1), int(2)), <<>>),
      Bin(negate(int(3)), <<>>),
      Bin(Unary("Not", bool(TRUE)), <<>>),
      Bin(If(bool(TRUE), int(1), int(2)), <<>>),
      Bin(If(bool(FALSE), int(1), int(2)), <<>>),
      Bin(If(int(1), int(1), int(2)), <<>>),
      Bin(Let(Ident("a"), int(1), int(2)), <<>>),
      Bin(Let(Ident("a"), int(1), variable("a")), <<>>),
      Bin(Let(Ident("a"), int(1), variable("b")), <<>>),
      Bin(Let(Ident("a"), int(1), Let(Ident("a"), int(2), variable("a"))), <<>>),
      Bin(Let(ValueP(IntV(0)), int(1), int(2)), <<>>),
      Bin(FnApp(Fn_(Ident("a"), variable("a")), int(1)), <<>>),
      Bin(FnApp(Fn_(TupleP(<<Ident("x"), Ident("y")>>), plus(variable("x"), variable("y"))),
                tuple(<<IntV(3), IntV(4)>>)), <<>>),
      Bin(FnApp(Fn_(ValueP(IntV(0)), int(1)), int(5)), <<>>),
      Bin(FnApp(int(1), tuple(<<IntV(10), IntV(20), IntV(30)>>)), <<>>),
      Bin(FnApp(int(5), tuple(<<IntV(10), IntV(20)>>)), <<>>),
      Bin(FnApp(int(-1), tuple(<<IntV(10)>>)), <<>>),
      Bin(FnApp(int(0), int(7)), <<>>),
      Bin(FnApp(bool(TRUE), int(7)), <<>>),
      Bin(Match(int(1), <<<<ValueP(IntV(0)), int(0)>>, <<ValueP(IntV(1)), int(1)>>,
                          <<Ident("a"), int(2)>>>>), <<>>),
      Bin(Match(int(3), <<<<ValueP(IntV(0)), int(0)>>, <<ValueP(IntV(1)), int(1)>>,
                          <<ValueP(IntV(2)), int(2)>>>>), <<>>),
      Bin(Boxed(int(1)), <<>>),
      Bin(Binary(Boxed(int(1)), "Equal", int(1)), <<>>),
      Bin(Binary(tuple(<<IntV(1), IntV(2)>>), "Equal", tuple(<<IntV(1), IntV(2)>>)), <<>>),
      Bin(Binary(Fn_(Ident("a"), int(1)), "Equal", Fn_(Ident("a"), int(1))), <<>>),
      Bin(Binary(int(-7), "Divide", int(2)), <<>>),
      Bin(Binary(int(-7), "Modulo", int(2)), <<>>),
      Bin(Binary(bool(TRUE), "Xor", bool(FALSE)), <<>>),
      Bin(Binary(int(1), "Less", int(2)), <<>>),
      Bin(Binary(int(1), "And", bool(TRUE)), <<>>),
      Bin(FnApp(variable("add1"), int(1)),
          <<Expression("add1", Fn_(Ident("a"), plus(variable("a"), int(1))))>>),
      Bin(variable("b"),
          <<Expression("a", int(1)), Expression("b", plus(variable("a"), int(1)))>>),
      Bin(Delayed(Ident("a"), variable("b"),
                  Let(Ident("b"), int(1), plus(variable("a"), variable("b")))), <<>>),
      Library(<<Expression("a", int(1))>>) }

\* Expressions that evaluate to an error, each with its own message.
ErrorExprs == {divide(int(1), int(0)), variable("zz"), Binary(int(1), "Modulo", int(0))}

\* An error in each operand position of the constructs that inspect operands.
ErrorPrograms ==
    UNION { { Bin(negate(e), <<>>),
              Bin(Unary("Not", e), <<>>),
              Bin(plus(e, int(2)), <<>>),
              Bin(plus(int(2), e), <<>>),
              Bin(Binary(e, "Equal", int(2)), <<>>),
              Bin(Binary(e, "And", bool(TRUE)), <<>>),
              Bin(If(e, int(1), int(2)), <<>>),
              Bin(FnApp(e, int(1)), <<>>),
              Bin(FnApp(Fn_(Ident("a"), variable("a")), e), <<>>),
              Bin(FnApp(int(0), e), <<>>),
              Bin(Boxed(e), <<>>),
              Bin(Let(Ident("a"), e, plus(variable("a"), int(1))), <<>>) } : e \in ErrorExprs }
    \cup { Bin(plus(e1, e2), <<>>) : e1, e2 \in ErrorExprs }

\* Match expressions: every list of at most MaxArms arms over ArmPatterns,
\* arm i with body d<i>, a delayed value of its own, so that the thunks show
\* which bodies were evaluated.
ArmPatterns ==
    {ValueP(IntV(0)), ValueP(IntV(1)), Ident("x"), Wildcard,
     TupleP(<<Ident("x"), ValueP(IntV(2))>>)}

Scrutinees == {int(0), int(1), bool(TRUE), tuple(<<IntV(1), IntV(2)>>), divide(int(1), int(0))}

ArmNames == <<"da", "db", "dc", "dd">>

Arms(ps) == [i \in 1..Len(ps) |-> <<ps[i], variable(ArmNames[i])>>]

RECURSIVE WithArmThunks(_, _)
\* delay da = 10 in delay db = 20 in ... body
WithArmThunks(n, body) ==
    IF n = 0 THEN body
    ELSE WithArmThunks(n - 1, Delayed(Ident(ArmNames[n]), int(10 * n), body))

MatchProgram(val, ps) == Bin(WithArmThunks(Len(ps), Match(val, Arms(ps))), <<>>)

MatchPrograms ==
    { MatchProgram(val, ps) :
        val \in Scrutinees, ps \in UNION { [1..n -> ArmPatterns] : n \in 1..MaxArms } }

\* Delayed bindings: the delayed expression, and how often the name is used.
DelayedValues ==
    {int(1), variable("a"), variable("b"), plus(variable("a"), int(1)),
     divide(int(1), int(0)), plus(variable("b"), variable("b"))}

DelayedBodies ==
    { Uses("a", n) : n \in 1..MaxUses }
    \cup { Let(Ident("b"), int(1), plus(Uses("a", n), variable("b"))) : n \in 1..MaxUses }
    \cup { int(5),
           Let(Ident("a"), int(7), variable("a")),
           FnApp(Fn_(Ident("y"), plus(variable("a"), variable("y"))), variable("a")) }

DelayedPrograms ==
    { Bin(Delayed(Ident("a"), v, body), <<>>) : v \in DelayedValues, body \in DelayedBodies }
    \cup { Bin(Delayed(Ident("a"), variable("b"),
                       Delayed(Ident("b"), v, Uses("a", n))), <<>>) :
             v \in {int(1), variable("a")}, n \in 1..MaxUses }
    \cup { Bin(Let(Ident("b"), int(3), Delayed(Ident("a"), variable("b"),
                       Let(Ident("b"), int(1), Uses("a", n)))), <<>>) : n \in 1..MaxUses }

\* Closures: what the environment of the definition binds, what the
\* environment of the call binds, the parameter, the body and the argument.
OptionalLet(binding, inner) ==
    IF binding = <<>> THEN inner ELSE Let(Ident(binding[1]), int(binding[2]), inner)

ClosureProgram(captured, caller, param, body, arg) ==
    Bin(OptionalLet(captured,
            Let(Ident("f"), Fn_(param, body),
                OptionalLet(caller, FnApp(variable("f"), arg)))), <<>>)

ClosurePrograms ==
    { ClosureProgram(captured, caller, param, body, arg) :
        captured \in {<<>>, <<"x", 1>>},
        caller \in {<<>>, <<"x", 10>>, <<"z", 2>>},
        param \in {Ident("y"), Ident("x"), Wildcard},
        body \in {variable("x"), variable("z"), plus(variable("x"), variable("y"))},
        arg \in {int(5), variable("x"), variable("z")} }

\* Top-level declarations: every assignment of an expression of DeclExprs to
\* the first n names, in every order, with each declared name as main.
DeclNames == <<"a", "b", "c", "d">>

DeclExprs(names) ==
    {int(2), Fn_(Ident("x"), plus(variable("x"), variable("b")))}
    \cup { plus(variable(n), int(1)) : n \in names }

DeclLists(n) ==
    LET names == {DeclNames[i] : i \in 1..n}
    IN  { [i \in 1..n |-> Expression(DeclNames[p[i]], assign[DeclNames[p[i]]])] :
            p \in Permutations(1..n), assign \in [names -> DeclExprs(names)] }

DeclPrograms ==
    UNION { { Bin(main, decls) :
                decls \in DeclLists(n),
                main \in { variable(DeclNames[i]) : i \in 1..n }
                         \cup { plus(variable("a"), variable("a")) } } : n \in 1..MaxDecls }

Programs == TestPrograms \cup ErrorPrograms \cup MatchPrograms \cup DelayedPrograms
            \cup ClosurePrograms \cup DeclPrograms

\* Delayed with a pattern that is not an identifier.
OtherPatterns ==
    {Wildcard, ValueP(IntV(0)), ValueP(error("Value not yet initialized")),
     TupleP(<<Ident("a"), Ident("b")>>), TupleP(<<>>)}

OtherPatternPrograms ==
    { Bin(OptionalLet(outer, Delayed(p, v, body)), <<>>) :
        outer \in {<<>>, <<"x", 1>>},
        p \in OtherPatterns,
        v \in {int(2), variable("x")},
        body \in {int(5), variable("x"), variable("a")} }

(***************************************************************************)
(* Specification                                                           *)
(***************************************************************************)
Start(p) ==
    /\ prog = p
    /\ run = 1
    /\ prev = [run |-> 0]
    /\ pc = "run_prog"
    /\ ctrl = Idle
    /\ stack = <<>>
    /\ frames = <<>>
    /\ thunks = <<>>
    /\ writes = <<>>
    /\ evals = <<>>
    /\ result = [ok |-> FALSE, err |-> "not run"]

Init == \E p \in Programs : Start(p)

InitAnyPat == \E p \in Programs \cup OtherPatternPrograms : Start(p)

\* run_prog is called again on the same declarations in a different order;
\* prev keeps what the previous call returned.
RunAgain ==
    /\ pc = "done"
    /\ run < MaxRuns
    /\ prog.decls # <<>>
    /\ \E p \in Permutations(1..Len(prog.decls)) :
          /\ \E i \in 1..Len(prog.decls) : p[i] # i
          /\ prog' = [prog EXCEPT !.decls = [i \in 1..Len(prog.decls) |-> prog.decls[p[i]]]]
    /\ prev' = [run |-> run, main |-> prog.main, decls |-> Range(prog.decls),
                result |-> result]
    /\ run' = run + 1
    /\ pc' = "run_prog"
    /\ ctrl' = Idle
    /\ stack' = <<>>
    /\ frames' = <<>>
    /\ thunks' = <<>>
    /\ writes' = <<>>
    /\ evals' = <<>>
    /\ result' = [ok |-> FALSE, err |-> "not run"]

Next ==
    \/ UnfilledEnv
    \/ FillDeclEnv
    \/ RunLibrary
    \/ EvalUnary
    \/ ApplyUnary
    \/ EvalBinary
    \/ EvalBinaryRight
    \/ ApplyBinary
    \/ EvalLiteral
    \/ EvalIf
    \/ IfBranch
    \/ EvalVariable
    \/ ForceDone
    \/ EvalLet
    \/ LetBind
    \/ EvalFn
    \/ EvalFnApp
    \/ FnAppFunction
    \/ FnAppArg
    \/ TupleIndex
    \/ EvalMatch
    \/ MatchArm
    \/ EvalDelayed
    \/ EvalBoxed
    \/ BoxValue
    \/ Finish
    \/ RunAgain

Spec == Init /\ [][Next]_vars

SpecAnyPat == InitAnyPat /\ [][Next]_vars

\* Execution is single-threaded and synchronous: a step that can be taken is taken.
FairSpec == Init /\ [][Next]_vars /\ WF_vars(Next)

(***************************************************************************)
(* Properties                                                              *)
(***************************************************************************)
\* A function value without the identity of its environment.
Observable(val) == IF val.tag = "Function" THEN [val EXCEPT !.env = empty] ELSE val

\* C1: for declarations with pairwise distinct names, a call of run_prog on
\* the same declarations in a different order returns the same value for the
\* same main expression (a declared name), forward references included.
DeclOrderIndependence ==
    (pc = "done" /\ prev.run > 0 /\ prev.main = prog.main /\ prev.decls = Range(prog.decls))
        => Observable(prev.result.val) = Observable(result.val)

\* [a = b + 1, b = 2] gave Int(3) for a after another order was run.
DeclOrderWitness ==
    /\ pc = "done"
    /\ prev.run > 0
    /\ prog.main = variable("a")
    /\ prog.decls = <<Expression("a", plus(variable("b"), int(1))), Expression("b", int(2))>>
    /\ result = [ok |-> TRUE, val |-> IntV(3)]

ThunkStep(s, t) ==
    \/ s = t
    \/ s = "Unevaluated" /\ t = "Evaluating"
    \/ s = "Evaluating" /\ t = "Forced"

\* C2: within a run every thunk starts Unevaluated and only moves
\* Unevaluated -> Evaluating -> Forced.
ThunkOrder ==
    [][\A t \in DOMAIN thunks' :
          IF t \in DOMAIN thunks THEN ThunkStep(thunks[t].state, thunks'[t].state)
          ELSE thunks'[t].state = "Unevaluated"]_vars

\* With [a = b + 1, b = 2] and main a: the thunk of b is Forced while the
\* thunk of a is still Evaluating.
ThunkOrderWitness ==
    /\ prog.decls = <<Expression("a", plus(variable("b"), int(1))), Expression("b", int(2))>>
    /\ Len(thunks) = 2
    /\ thunks[1] = [state |-> "Evaluating"]
    /\ thunks[2] = [state |-> "Forced", val |-> IntV(2)]

\* The cell that a lookup of the current variable finds holds a thunk in the given state.
LooksUpThunk(state) ==
    /\ At("Variable")
    /\ LET found == get(frames, ctrl.env, ctrl.expr.ident)
       IN  /\ found.found
           /\ found.val.tag = "Thunk"
           /\ thunks[found.val.id].state = state

\* C3: the expression of a delayed binding is evaluated at most once in a
\* run, and a lookup that does not find an unevaluated thunk returns at once
\* without evaluating anything.
DelayedMemoization ==
    /\ [](\A t \in DOMAIN evals : evals[t] <= 1)
    /\ [][At("Variable") /\ ~LooksUpThunk("Unevaluated")
            => evals' = evals /\ thunks' = thunks /\ ctrl'.mode = "ret"]_vars

\* `delay a = 1 in a + a`: two lookups, one evaluation.
DelayedMemoizationWitness ==
    /\ pc = "done"
    /\ prog.main = Delayed(Ident("a"), int(1), plus(variable("a"), variable("a")))
    /\ evals = <<1>>
    /\ result = [ok |-> TRUE, val |-> IntV(2)]

CyclicError == error("cyclic use of delayed value")

CyclicPrograms ==
    { Bin(Delayed(Ident("a"), variable("a"), variable("a")), <<>>),
      Bin(variable("a"), <<Expression("a", plus(variable("a"), int(1)))>>) }

\* C4: forcing a thunk that is Evaluating returns Error("cyclic use of
\* delayed value") without touching the thunk, the evaluation goes on to its
\* end, and `delay a = a in a` and the declaration `a = a + 1` end in that error.
CyclicDelayDetection ==
    /\ [][LooksUpThunk("Evaluating")
            => ctrl' = Ret(CyclicError) /\ thunks' = thunks /\ stack' = stack]_vars
    /\ [](pc = "done" /\ prog \in CyclicPrograms => result = [ok |-> TRUE, val |-> CyclicError])
    /\ (LooksUpThunk("Evaluating") ~> pc = "done")

CyclicDelayWitness ==
    /\ pc = "done"
    /\ prog.main = Delayed(Ident("a"), variable("a"), variable("a"))
    /\ result = [ok |-> TRUE, val |-> CyclicError]
    /\ thunks = <<[state |-> "Forced", val |-> CyclicError]>>

\* C5 as claimed: a cell is written at most twice, at the creation of its
\* frame and at most once more by the declaration binder, by nothing else.
CellWrittenByBinderOnly ==
    \A f \in DOMAIN writes :
        /\ Len(writes[f]) <= 2
        /\ writes[f][1] = "create"
        /\ Len(writes[f]) = 2 => writes[f][2] = "fill_decl_env"

\* C5 as amended: a cell is written at the creation of its frame, then at
\* most once by the installation of a thunk or closure (by the declaration
\* binder, or by the Delayed expression that made the frame), then at most
\* once by the forcing of the thunk installed there.
CellWrites ==
    \A f \in DOMAIN writes :
        /\ Len(writes[f]) \in 1..3
        /\ writes[f][1] = "create"
        /\ Len(writes[f]) >= 2 => writes[f][2] \in {"fill_decl_env", "Delayed"}
        /\ Len(writes[f]) = 3 => writes[f][3] = "force"

\* let b = 3 in delay a = b in let b = 1 in a: the frame of a was created,
\* given its thunk by Delayed and then the forced value; the frames of b
\* were written at creation only.
CellWritesWitness ==
    /\ pc = "done"
    /\ writes = <<<<"create">>, <<"create", "Delayed", "force">>, <<"create">>>>
    /\ frames[2].name = "a"
    /\ frames[2].cell = IntV(1)

IsError(val) == val.tag = "Error"

\* C6 as claimed: an Error in the first operand a construct inspects (the
\* operand of a unary operator, the left operand of a binary operator or the
\* right one when the left is no error, the condition of If, the function
\* position of FnApp) is the result of the construct.
ErrorPropagation ==
    [][/\ Back("Unary") /\ IsError(ctrl.val) => ctrl' = Ret(ctrl.val)
       /\ Back("BinaryRight") /\ IsError(Head(stack).a) => ctrl' = Ret(Head(stack).a)
       /\ Back("BinaryRight") /\ ~IsError(Head(stack).a) /\ IsError(ctrl.val)
            => ctrl' = Ret(ctrl.val)
       /\ Back("If") /\ IsError(ctrl.val) => ctrl' = Ret(ctrl.val)
       /\ Back("FnAppFunction") /\ IsError(ctrl.val) => ctrl' = Ret(ctrl.val)]_vars

RECURSIVE Matches(_, _)
\* Whether a pattern matches a value.
Matches(p, v) ==
    CASE p.tag = "Ident" -> TRUE
      [] p.tag = "Wildcard" -> TRUE
      [] p.tag = "Value" -> ValEq(p.val, v)
      [] p.tag = "Tuple" ->
            /\ v.tag = "Tuple"
            /\ Len(v.items) = Len(p.items)
            /\ \A i \in 1..Len(p.items) : Matches(p.items[i], v.items[i])

RECURSIVE Bindings(_, _)
RECURSIVE TupleBindings(_, _, _)
\* The bindings a matching pattern introduces, in order: <<name, value>>.
Bindings(p, v) ==
    CASE p.tag = "Ident" -> <<<<p.name, v>>>>
      [] p.tag = "Tuple" -> TupleBindings(p.items, v.items, 1)
      [] OTHER -> <<>>

TupleBindings(ps, vs, i) ==
    IF i > Len(ps) THEN <<>> ELSE Bindings(ps[i], vs[i]) \o TupleBindings(ps, vs, i + 1)

Names == {"a", "b", "f", "x", "y", "z", "zz", "da", "db", "dc", "dd"}

\* Environment env2 of heap fr2 is env1 of heap fr1 extended with the
\* bindings of p against v: every name resolves to the last binding of p for
\* it, and to what env1 gives when p does not bind it.
Extends(fr2, env2, fr1, env1, p, v) ==
    LET bs == Bindings(p, v)
    IN  \A n \in Names :
            LET hits == {i \in 1..Len(bs) : bs[i][1] = n}
            IN  get(fr2, env2, n) =
                    IF hits = {} THEN get(fr1, env1, n)
                    ELSE [found |-> TRUE,
                          val |-> bs[CHOOSE i \in hits : \A j \in hits : j <= i][2]]

\* C7: Match goes on with the body of the first arm whose pattern matches
\* the scrutinee, in env extended with that arm's bindings, and with
\* Error("Value didn't match any patterns") when none does; in the Match
\* programs, whose arm bodies are delayed values, at most one is evaluated.
MatchOrder ==
    /\ [][Back("Match") =>
            LET f == Head(stack)
                hits == {i \in 1..Len(f.patterns) : Matches(f.patterns[i][1], ctrl.val)}
            IN  IF hits = {} THEN ctrl' = Ret(error("Value didn't match any patterns"))
                ELSE LET first == CHOOSE i \in hits : \A j \in hits : i <= j
                     IN  /\ ctrl'.mode = "eval"
                         /\ ctrl'.expr = f.patterns[first][2]
                         /\ Extends(frames', ctrl'.env, frames, f.env,
                                    f.patterns[first][1], ctrl.val)]_vars
    /\ [](prog \in MatchPrograms => Cardinality({t \in DOMAIN evals : evals[t] > 0}) <= 1)

\* match 1 to 0 -> da | x -> db | _ -> dc (or its first two arms): the second
\* arm was taken and only its body was evaluated.
MatchOrderWitness ==
    /\ pc = "done"
    /\ prog.main \in { WithArmThunks(Len(ps), Match(int(1), Arms(ps))) :
                         ps \in {<<ValueP(IntV(0)), Ident("x")>>,
                                 <<ValueP(IntV(0)), Ident("x"), Wildcard>>} }
    /\ result = [ok |-> TRUE, val |-> IntV(20)]
    /\ evals[1] = 0
    /\ evals[2] = 1

DelayedTest ==
    Delayed(Ident("a"), variable("b"),
            Let(Ident("b"), int(1), plus(variable("a"), variable("b"))))

\* C8: Delayed(Ident a, v, body) creates an unevaluated thunk for v and goes
\* on with body without evaluating v; the first lookup of the name evaluates
\* v in the environment of the lookup; `delay a = b in let b = 1 in a + b`
\* is Int(2).
DelayedLateBinding ==
    /\ [][At("Delayed") /\ ctrl.expr.ident.tag = "Ident" =>
            /\ Len(thunks') = Len(thunks) + 1
            /\ thunks'[Len(thunks')].state = "Unevaluated"
            /\ thunks'[Len(thunks')].expr = ctrl.expr.value
            /\ evals'[Len(thunks')] = 0
            /\ ctrl'.mode = "eval"
            /\ ctrl'.expr = ctrl.expr.inner
            /\ get(frames', ctrl'.env, ctrl.expr.ident.name) =
                  [found |-> TRUE, val |-> ThunkV(Len(thunks'))]]_vars
    /\ [][LooksUpThunk("Unevaluated") =>
            ctrl' = Eval(thunks[get(frames, ctrl.env, ctrl.expr.ident).val.id].expr, ctrl.env)]_vars
    /\ [](pc = "done" /\ prog.main = DelayedTest /\ prog.decls = <<>>
            => result = [ok |-> TRUE, val |-> IntV(2)])

DelayedLateBindingWitness ==
    /\ pc = "done"
    /\ prog.main = DelayedTest
    /\ result = [ok |-> TRUE, val |-> IntV(2)]
    /\ thunks = <<[state |-> "Forced", val |-> IntV(1)]>>

\* What a closure program returns: the body sees the parameter, then the
\* bindings of the definition site; the argument sees the call site.
ClosureExpected(captured, caller, param, body, arg) ==
    LET NotDeclared(n) == ErrorV(<<"Variable '", n, "' is not declared">>)
        AtDefinition(n) ==
            IF captured # <<>> /\ captured[1] = n THEN IntV(captured[2]) ELSE NotDeclared(n)
        AtCall(n) ==
            IF caller # <<>> /\ caller[1] = n THEN IntV(caller[2]) ELSE AtDefinition(n)
        argument == IF arg.tag = "Variable" THEN AtCall(arg.ident) ELSE arg.val
        InBody(n) == IF param.tag = "Ident" /\ param.name = n THEN argument ELSE AtDefinition(n)
    IN  IF body.tag = "Variable" THEN InBody(body.ident)
        ELSE BinaryEval(body.op, InBody(body.a.ident), InBody(body.b.ident))

\* C9: the argument of an application is evaluated in the caller's
\* environment, the body in the captured environment extended with the
\* bindings of the parameter; a name bound only at the call site is not
\* visible in the body, and one bound at both sites resolves to the binding
\* of the definition site.
LexicalClosures ==
    /\ [][Back("FnAppFunction") /\ ctrl.val.tag = "Function" =>
            /\ ctrl' = Eval(Head(stack).arg, Head(stack).env)
            /\ Head(stack').fn_env = ctrl.val.env]_vars
    /\ [][Back("FnAppArg") =>
            LET f == Head(stack)
            IN  IF Matches(f.param, ctrl.val)
                THEN /\ ctrl'.mode = "eval"
                     /\ ctrl'.expr = f.body
                     /\ Extends(frames', ctrl'.env, frames, f.fn_env, f.param, ctrl.val)
                ELSE ctrl'.mode = "ret" /\ IsError(ctrl'.val)]_vars
    /\ [](pc = "done" =>
            \A captured \in {<<>>, <<"x", 1>>}, caller \in {<<>>, <<"x", 10>>, <<"z", 2>>},
               param \in {Ident("y"), Ident("x"), Wildcard},
               body \in {variable("x"), variable("z"), plus(variable("x"), variable("y"))},
               arg \in {int(5), variable("x"), variable("z")} :
                 prog = ClosureProgram(captured, caller, param, body, arg)
                    => result.val = ClosureExpected(captured, caller, param, body, arg))

\* let x = 1 in let f = fn y -> x + y in let x = 10 in f x is 11: the
\* argument x is the caller's, the x of the body the one of the definition.
LexicalClosuresWitness ==
    /\ pc = "done"
    /\ prog = ClosureProgram(<<"x", 1>>, <<"x", 10>>, Ident("y"),
                             plus(variable("x"), variable("y")), variable("x"))
    /\ result = [ok |-> TRUE, val |-> IntV(11)]

\* What a Delayed expression must do to the heap: bind without failing, leave
\* the cells of the existing frames alone, and put the thunk in a new frame.
InstallsInNewFrame ==
    /\ pc' # "panic"
    /\ \A f \in DOMAIN frames : frames'[f] = frames[f]
    /\ \E f \in DOMAIN frames' \ DOMAIN frames : frames'[f].cell = ThunkV(Len(thunks'))

\* C10 as claimed: for every pattern.
DelayedAnyPattern == [][At("Delayed") => InstallsInNewFrame]_vars

\* C10 as amended: for an Ident pattern.
DelayedIdentPattern ==
    [][At("Delayed") /\ ctrl.expr.ident.tag = "Ident" => InstallsInNewFrame]_vars

\* A Delayed with an identifier has installed its thunk on top of a frame
\* that was there before and that still holds its value.
DelayedIdentWitness ==
    \E f \in DOMAIN frames :
        /\ writes[f] = <<"create", "Delayed">>
        /\ frames[f].cell.tag = "Thunk"
        /\ frames[f].parent # empty
        /\ frames[frames[f].parent].cell = IntV(3)

====
